---- MODULE Spec2Model ----
(***************************************************************************)
(* Tool invocation and confirmation gating of the chat agent               *)
(* (src/src/tools.ts): the tool registry `tools`, the confirmed-executor   *)
(* table `executions`, every executor, the session's Schedule Store as the *)
(* scheduling tools use it, and the Confirmation Gate that drives a tool   *)
(* call from the model's request to its result.                            *)
(***************************************************************************)
EXTENDS Integers, Sequences, FiniteSets, TLC

(***************************************************************************)
(* Bounds of the model.                                                    *)
(***************************************************************************)
\* tool calls alive at the same time (one being processed, the rest parked)
MaxCalls == 2
\* descriptors the session ever registers in one run
MaxSchedules == 1

Undefined == "undefined"

RangeOf(s) == {s[i] : i \in DOMAIN s}

(***************************************************************************)
(* The registry: tools.ts:382-399, and which definitions carry `execute`.  *)
(***************************************************************************)
tools ==
  { "getWeatherInformation", "getLocalTime", "scheduleTask", "getScheduledTasks",
    "cancelScheduledTask", "createKlaviyoProfile", "getKlaviyoProfile",
    "updateKlaviyoProfile", "getKlaviyoLists", "createKlaviyoList",
    "addProfileToList", "removeProfileFromList", "getKlaviyoCampaigns",
    "sendKlaviyoCampaign", "getKlaviyoMetrics" }

\* the tool({...}) definitions that have an `execute:` property
WithExecute ==
  { "getLocalTime", "scheduleTask", "getScheduledTasks", "cancelScheduledTask",
    "getKlaviyoProfile", "getKlaviyoLists", "getKlaviyoCampaigns",
    "getKlaviyoMetrics" }

\* mutant: the table lacks the entry of sendKlaviyoCampaign
executionsWithoutSend ==
  { "getWeatherInformation", "createKlaviyoProfile", "updateKlaviyoProfile",
    "createKlaviyoList", "addProfileToList", "removeProfileFromList" }

\* the keys of the `executions` object, tools.ts:407-713
executions ==
  { "getWeatherInformation", "createKlaviyoProfile", "updateKlaviyoProfile",
    "createKlaviyoList", "addProfileToList", "removeProfileFromList",
    "sendKlaviyoCampaign" }

HasExecute(t) == t \in WithExecute

\* "Omitting execute function makes this tool require human confirmation"
RequiresConfirmation(t) == t \in tools /\ ~HasExecute(t)

IntegrationTools ==
  { "createKlaviyoProfile", "getKlaviyoProfile", "updateKlaviyoProfile",
    "getKlaviyoLists", "createKlaviyoList", "addProfileToList",
    "removeProfileFromList", "getKlaviyoCampaigns", "sendKlaviyoCampaign",
    "getKlaviyoMetrics" }

TwoStepTools == {"updateKlaviyoProfile", "addProfileToList", "removeProfileFromList"}

(***************************************************************************)
(* Inputs.  Every value is a string, as in the tool's JSON arguments; a    *)
(* field the caller left out is Undefined.                                 *)
(***************************************************************************)
Dates == {"2026-01-01T09:00:00Z"}
Delays == {"30"}
Crons == {"0 * * * *"}
Descriptions == {"p"}
Emails == {"a@example.com"}
ListIds == {"L1"}
CampaignIds == {"K1"}
ProfileIds == {"P1", "P2"}

ScheduleTypes == {"scheduled", "delayed", "cron", "no-schedule"}

NoWhen == [type |-> Undefined, date |-> Undefined, delayInSeconds |-> Undefined,
           cron |-> Undefined]

\* `when` values: every field filled for each type, one cron request whose
\* cron field is missing (all three are optional in the schema), and one
\* whose type is outside the schema's enumeration
Whens ==
  { [type |-> t, date |-> "2026-01-01T09:00:00Z", delayInSeconds |-> "30",
     cron |-> "0 * * * *"] : t \in ScheduleTypes \cup {"weekly"} }
  \cup { [NoWhen EXCEPT !.type = "cron"] }

Blank == [when |-> NoWhen, description |-> Undefined, taskId |-> Undefined,
          email |-> Undefined, listId |-> Undefined, campaignId |-> Undefined,
          name |-> Undefined, metricId |-> Undefined, limit |-> Undefined,
          city |-> Undefined, location |-> Undefined]

(***************************************************************************)
(* Results.  An executor returns a string built from a fixed text and the  *)
(* values interpolated into it, or an object (the response's JSON, the     *)
(* list of schedules).  `cause` is the message of the Error a catch block  *)
(* interpolated after its own text.                                        *)
(***************************************************************************)
Str(msg, parts) ==
  [type |-> "string", msg |-> msg, cause |-> "", parts |-> parts, tasks |-> <<>>]

Caught(msg, err) ==
  [type |-> "string", msg |-> msg, cause |-> err.msg, parts |-> err.parts,
   tasks |-> <<>>]

Obj(parts) ==
  [type |-> "object", msg |-> "", cause |-> "", parts |-> parts, tasks |-> <<>>]

TaskList(ts) ==
  [type |-> "object", msg |-> "", cause |-> "", parts |-> <<>>, tasks |-> ts]

NoResult == Str("", <<>>)

Err(msg, parts) == [msg |-> msg, parts |-> parts]

\* the texts the catch blocks of tools.ts put in front of the error
ErrorTexts ==
  { "Error scheduling task", "Error listing scheduled tasks", "Error canceling task",
    "Error getting profile", "Error getting lists", "Error getting campaigns",
    "Error getting metrics", "Error creating profile", "Error updating profile",
    "Error creating list", "Error adding profile to list",
    "Error removing profile from list", "Error sending campaign" }

IsErrorResult(r) == r.type = "string" /\ r.msg \in ErrorTexts

(***************************************************************************)
(* What one run of an executor did: its result, whether it threw to its    *)
(* caller, whether it left a rejected promise nobody handles, the requests *)
(* it sent and the responses it got, the session operations it called, and *)
(* the Schedule Store after it.                                            *)
(***************************************************************************)
Returned(result, requests, responses, session, store) ==
  [result |-> result, threw |-> FALSE, unhandled |-> FALSE, requests |-> requests,
   responses |-> responses, session |-> session, store |-> store]

Thrown(err, store) ==
  [result |-> Caught("", err), threw |-> TRUE, unhandled |-> FALSE,
   requests |-> <<>>, responses |-> <<>>, session |-> <<>>, store |-> store]

NotRun(store) ==
  [result |-> NoResult, threw |-> FALSE, unhandled |-> FALSE, requests |-> <<>>,
   responses |-> <<>>, session |-> <<>>, store |-> store]

(***************************************************************************)
(* The session operations the scheduling tools call (agent.schedule,       *)
(* agent.getSchedules, agent.cancelSchedule).  tools.ts sees only how a    *)
(* call ends: it returns or resolves ("ok"), it throws synchronously       *)
(* ("throws"), or the promise it returned rejects ("rejects").  Which one  *)
(* happens is the session's choice.                                        *)
(***************************************************************************)
SessionOutcomes == {"ok", "throws", "rejects"}

SessionError == Err("Error: session operation failed", <<>>)

IdOf(n) == "task-" \o ToString(n)

\* the kind the session derives from the trigger it is handed
KindOf(input) ==
  IF input \in Dates THEN "scheduled"
  ELSE IF input \in Delays THEN "delayed" ELSE "cron"

\* a call of a session operation: its arguments, how it ended, and whether
\* the Schedule Store held the id it named
SessionCall(op, input, callback, payload, ended, present) ==
  [op |-> op, input |-> input, callback |-> callback, payload |-> payload,
   ended |-> ended, present |-> present]

Scheduled(store, taskId) == \E i \in DOMAIN store.schedules : store.schedules[i].id = taskId

\* schedule cannot succeed without a trigger, nor beyond the model's bound
ScheduleEnds(store, input, so) ==
  IF so = "ok" /\ (input = Undefined \/ store.nextId >= MaxSchedules)
  THEN "rejects"
  ELSE so

AgentSchedule(store, input, callback, payload) ==
  [schedules |-> Append(store.schedules,
                        [id |-> IdOf(store.nextId + 1), type |-> KindOf(input),
                         trigger |-> input, callback |-> callback,
                         payload |-> payload]),
   nextId |-> store.nextId + 1]

AgentCancelSchedule(store, taskId) ==
  [store EXCEPT !.schedules = SelectSeq(store.schedules, LAMBDA d : d.id # taskId)]

(***************************************************************************)
(* scheduleTask.execute, tools.ts:40-65                                    *)
(***************************************************************************)
\* mutant: the "no-schedule" test is missing
NeverNoSchedule(when) == FALSE

IsNoSchedule(when) == when.type = "no-schedule"

\* mutant: the cron field is taken whatever the type
ScheduleInputCron(when) == when.cron

\* the trigger handed to agent.schedule, tools.ts:50-57
ScheduleInput(when) ==
  IF when.type = "scheduled" THEN when.date
  ELSE IF when.type = "delayed" THEN when.delayInSeconds
  ELSE when.cron

\* mutant: the text leaves the trigger out
ScheduledTextWithoutInput(when, input) == Str("Task scheduled for type {type} : {input}", <<when.type>>)

\* `Task scheduled for type "${when.type}" : ${input}`
ScheduledText(when, input) == Str("Task scheduled for type {type} : {input}", <<when.type, input>>)

\* mutant: the descriptor is registered twice
RegisterTwice(store, input, description) ==
  AgentSchedule(AgentSchedule(store, input, "executeTask", description),
                input, "executeTask", description)

\* agent!.schedule(input!, "executeTask", description) when it succeeds
Register(store, input, description) ==
  AgentSchedule(store, input, "executeTask", description)

scheduleTask(args, so, store) ==
  LET when == args.when
      description == args.description
  IN
  IF IsNoSchedule(when)
  THEN Returned(Str("Not a valid schedule input", <<>>), <<>>, <<>>, <<>>, store)
  ELSE IF when.type \notin {"scheduled", "delayed", "cron"}
  THEN \* throwError, outside the try block
       Thrown(Err("not a valid schedule input", <<>>), store)
  ELSE
    LET input == ScheduleInput(when)
        ends == ScheduleEnds(store, input, so)
        call == SessionCall("schedule", input, "executeTask", description, ends, FALSE)
    IN
    IF ends = "throws"
    THEN Returned(Caught("Error scheduling task", SessionError), <<>>, <<>>,
                  <<call>>, store)
    ELSE IF ends = "rejects"
    THEN \* the promise is not awaited: the rejection reaches no catch block
         [Returned(ScheduledText(when, input), <<>>, <<>>, <<call>>, store)
            EXCEPT !.unhandled = TRUE]
    ELSE Returned(ScheduledText(when, input), <<>>, <<>>, <<call>>,
                  Register(store, input, description))

(***************************************************************************)
(* getScheduledTasks.execute, tools.ts:75-88.  getSchedules returns the    *)
(* list itself, so it fails only by throwing.                              *)
(***************************************************************************)
\* mutant: the list is returned as it is, empty or not
getScheduledTasksAsListed(args, so, store) ==
  LET ends == IF so = "ok" THEN "ok" ELSE "throws"
      call == SessionCall("getSchedules", Undefined, Undefined, Undefined, ends, FALSE)
  IN
  IF ends # "ok"
  THEN Returned(Caught("Error listing scheduled tasks", SessionError), <<>>, <<>>,
                <<call>>, store)
  ELSE Returned(TaskList(store.schedules), <<>>, <<>>, <<call>>, store)

getScheduledTasks(args, so, store) ==
  LET ends == IF so = "ok" THEN "ok" ELSE "throws"
      call == SessionCall("getSchedules", Undefined, Undefined, Undefined, ends, FALSE)
      tasks == store.schedules
  IN
  IF ends # "ok"
  THEN Returned(Caught("Error listing scheduled tasks", SessionError), <<>>, <<>>,
                <<call>>, store)
  ELSE IF Len(tasks) = 0
  THEN Returned(Str("No scheduled tasks found.", <<>>), <<>>, <<>>, <<call>>, store)
  ELSE Returned(TaskList(tasks), <<>>, <<>>, <<call>>, store)

(***************************************************************************)
(* cancelScheduledTask.execute, tools.ts:100-109.  The call is awaited, so *)
(* a throw and a rejection both land in the catch block; the value the     *)
(* promise resolves to is not read.                                        *)
(***************************************************************************)
cancelScheduledTask(args, so, store) ==
  LET taskId == args.taskId
      call == SessionCall("cancelSchedule", taskId, Undefined, Undefined, so,
                          Scheduled(store, taskId))
  IN
  IF so # "ok"
  THEN Returned(Caught("Error canceling task", Err(SessionError.msg, <<taskId>>)),
                <<>>, <<>>, <<call>>, store)
  ELSE Returned(Str("Task {taskId} has been successfully canceled.", <<taskId>>), <<>>, <<>>,
                <<call>>, AgentCancelSchedule(store, taskId))

(***************************************************************************)
(* The external API as the executors see it: a fetch either throws (no     *)
(* connection) or yields a response; `data` is what response.json() gives, *)
(* reduced to the ids the executors read from it.                          *)
(***************************************************************************)
Response(ok, status, statusText, body, data) ==
  [thrown |-> FALSE, ok |-> ok, status |-> status, statusText |-> statusText,
   body |-> body, data |-> data]

FetchThrows ==
  [thrown |-> TRUE, ok |-> FALSE, status |-> "", statusText |-> "", body |-> "",
   data |-> <<>>]

Responses ==
  { Response(TRUE, "200", "OK", "", d) : d \in {<<>>, <<"P1">>, <<"P2", "P1">>} }
  \cup { Response(FALSE, "404", "Not Found", "{\"errors\":[]}", <<>>), FetchThrows }

FetchError == Err("TypeError: fetch failed", <<>>)

\* `Klaviyo API error: ${status} ${statusText} - ${errorText}`
ApiErrorWithBody(r) == Err("Error: Klaviyo API error", <<r.status, r.statusText, r.body>>)

\* `Klaviyo API error: ${status} ${statusText}`
ApiError(r) == Err("Error: Klaviyo API error", <<r.status, r.statusText>>)

\* `Error finding profile: ${status} ${statusText}`
FindError(r) == Err("Error: Error finding profile", <<r.status, r.statusText>>)

\* mutant: the message does not say which email was looked up
NotFoundUnnamed(email) == Err("Error: Profile not found for email", <<>>)

\* `Profile not found for email: ${params.email}`
NotFound(email) == Err("Error: Profile not found for email", <<email>>)

Request(method, url, path, body, key) ==
  [method |-> method, url |-> url, path |-> path, body |-> body, auth |-> key]

\* mutant: the readers send their request with method POST
GetAsPost(url, path, key) == Request("POST", url, path, <<>>, key)

\* fetch without a `method` option sends a GET
Get(url, path, key) == Request("GET", url, path, <<>>, key)

Api(result, requests, responses, store) ==
  Returned(result, requests, responses, <<>>, store)

(***************************************************************************)
(* The auto-executable tools: tools.ts:31-34, 150-187, 222-243, 294-315,   *)
(* 341-375                                                                 *)
(***************************************************************************)
getLocalTime(args, store) == Api(Str("10am", <<>>), <<>>, <<>>, store)

getKlaviyoProfile(args, key, r, store) ==
  LET req == Get("/api/v2/people/search?email=", <<args.email>>, key)
      catch(e) == Api(Caught("Error getting profile", e), <<req>>, <<r>>, store)
  IN
  IF key = ""
  THEN Api(Caught("Error getting profile",
                  Err("Error: KLAVIYO_API_KEY environment variable is not set", <<>>)),
           <<>>, <<>>, store)
  ELSE IF r.thrown THEN catch(FetchError)
  ELSE IF ~r.ok THEN catch(ApiErrorWithBody(r))
  ELSE Api(Obj(r.data), <<req>>, <<r>>, store)

\* the three list readers differ only in the URL and the text of the catch
ReadAll(req, text, r, store) ==
  IF r.thrown THEN Api(Caught(text, FetchError), <<req>>, <<r>>, store)
  ELSE IF ~r.ok THEN Api(Caught(text, ApiError(r)), <<req>>, <<r>>, store)
  ELSE Api(Obj(r.data), <<req>>, <<r>>, store)

getKlaviyoLists(args, key, r, store) ==
  ReadAll(Get("/api/v2/lists", <<>>, key), "Error getting lists", r, store)

getKlaviyoCampaigns(args, key, r, store) ==
  LET limit == IF args.limit = Undefined THEN "50" ELSE args.limit
  IN ReadAll(Get("/api/v2/campaigns?count=", <<limit>>, key),
             "Error getting campaigns", r, store)

getKlaviyoMetrics(args, key, r, store) ==
  LET req == IF args.metricId # Undefined
             THEN Get("/api/v2/metric/", <<args.metricId>>, key)
             ELSE Get("/api/v2/metrics", <<>>, key)
  IN ReadAll(req, "Error getting metrics", r, store)

(***************************************************************************)
(* The confirmed executors: tools.ts:408-712                               *)
(***************************************************************************)
executions_getWeatherInformation(args, store) ==
  Api(Str("The weather in {city} is sunny", <<args.city>>), <<>>, <<>>, store)

\* one request, whose success answer carries the id of what was created
CreateOne(req, text, success, r, store) ==
  IF r.thrown THEN Api(Caught(text, FetchError), <<req>>, <<r>>, store)
  ELSE IF ~r.ok THEN Api(Caught(text, ApiErrorWithBody(r)), <<req>>, <<r>>, store)
  ELSE IF Len(r.data) = 0
  THEN \* data.data is undefined: reading its id throws inside the try block
       Api(Caught(text, Err("TypeError: Cannot read properties of undefined", <<>>)),
           <<req>>, <<r>>, store)
  ELSE Api(Str(success[1], <<success[2], r.data[1]>>), <<req>>, <<r>>, store)

executions_createKlaviyoProfile(args, key, r, store) ==
  CreateOne(Request("POST", "/api/profiles/", <<>>, <<args.email>>, key),
            "Error creating profile",
            <<"Profile created successfully for {email}. Profile ID: {id}", args.email>>, r, store)

executions_createKlaviyoList(args, key, r, store) ==
  CreateOne(Request("POST", "/api/lists/", <<>>, <<args.name>>, key),
            "Error creating list",
            <<"List created successfully: {name}. List ID: {id}", args.name>>, r, store)

\* mutant: the last match is taken
LastMatch(data) == data[Len(data)]

\* searchData[0].id
FirstMatch(data) == data[1]

\* look the profile up by email, then send the request mutate[profileId]
LookupThenMutate(email, mutate, text, success, key, r1, r2, store) ==
  LET search == Get("/api/v2/people/search?email=", <<email>>, key)
      catch1(e) == Api(Caught(text, e), <<search>>, <<r1>>, store)
  IN
  IF r1.thrown THEN catch1(FetchError)
  ELSE IF ~r1.ok THEN catch1(FindError(r1))
  ELSE IF Len(r1.data) = 0 THEN catch1(NotFound(email))
  ELSE
    LET profileId == FirstMatch(r1.data)
        reqs == <<search, mutate[profileId]>>
        catch2(e) == Api(Caught(text, e), reqs, <<r1, r2>>, store)
    IN
    IF r2.thrown THEN catch2(FetchError)
    ELSE IF ~r2.ok THEN catch2(ApiErrorWithBody(r2))
    ELSE Api(success, reqs, <<r1, r2>>, store)

executions_updateKlaviyoProfile(args, key, r1, r2, store) ==
  LET patch == [profileId \in ProfileIds |->
                 Request("PATCH", "/api/profiles/{id}/", <<profileId>>,
                         <<profileId>>, key)]
  IN LookupThenMutate(args.email, patch, "Error updating profile",
                      Str("Profile updated successfully for {email}", <<args.email>>),
                      key, r1, r2, store)

executions_addProfileToList(args, key, r1, r2, store) ==
  LET post == [profileId \in ProfileIds |->
                Request("POST", "/api/lists/{id}/subscriptions/", <<args.listId>>,
                        <<profileId>>, key)]
  IN LookupThenMutate(args.email, post, "Error adding profile to list",
                      Str("Profile {email} added to list {listId} successfully",
                          <<args.email, args.listId>>),
                      key, r1, r2, store)

executions_removeProfileFromList(args, key, r1, r2, store) ==
  LET delete == [profileId \in ProfileIds |->
                  Request("DELETE", "/api/lists/{id}/subscriptions/{id}/",
                          <<args.listId, profileId>>, <<>>, key)]
  IN LookupThenMutate(args.email, delete, "Error removing profile from list",
                      Str("Profile {email} removed from list {listId} successfully",
                          <<args.email, args.listId>>),
                      key, r1, r2, store)

\* mutant: a refused send is tried once more
executions_sendKlaviyoCampaignAgain(args, key, r, store) ==
  LET req == Request("POST", "/api/v2/campaign/{id}/send", <<args.campaignId>>,
                     <<>>, key)
  IN
  IF r.thrown \/ ~r.ok
  THEN Api(Caught("Error sending campaign", ApiErrorWithBody(r)), <<req, req>>, <<r, r>>,
           store)
  ELSE Api(Str("Campaign {campaignId} sent successfully", <<args.campaignId>>), <<req>>, <<r>>,
           store)

executions_sendKlaviyoCampaign(args, key, r, store) ==
  LET req == Request("POST", "/api/v2/campaign/{id}/send", <<args.campaignId>>,
                     <<>>, key)
      catch(e) == Api(Caught("Error sending campaign", e), <<req>>, <<r>>, store)
  IN
  IF r.thrown THEN catch(FetchError)
  ELSE IF ~r.ok THEN catch(ApiErrorWithBody(r))
  ELSE Api(Str("Campaign {campaignId} sent successfully", <<args.campaignId>>), <<req>>, <<r>>,
           store)

(***************************************************************************)
(* The arguments the model may send with a call, per tool, and the input   *)
(* schema of each tool (the `parameters:` of its definition).              *)
(***************************************************************************)
NotAString == "<number>"

\* the fields each schema requires (z.string() without .optional())
Required(t) ==
  CASE t = "getWeatherInformation" -> {"city"}
    [] t = "getLocalTime" -> {"location"}
    [] t = "scheduleTask" -> {"description"}
    [] t = "cancelScheduledTask" -> {"taskId"}
    [] t \in {"createKlaviyoProfile", "getKlaviyoProfile", "updateKlaviyoProfile"}
         -> {"email"}
    [] t = "createKlaviyoList" -> {"name"}
    [] t \in {"addProfileToList", "removeProfileFromList"} -> {"email", "listId"}
    [] t = "sendKlaviyoCampaign" -> {"campaignId"}
    [] OTHER -> {}

TaskIds == {IdOf(n) : n \in 1..(MaxSchedules + 1)}

WellFormed(t) ==
  CASE t = "getWeatherInformation" -> {[Blank EXCEPT !.city = "Paris"]}
    [] t = "getLocalTime" -> {[Blank EXCEPT !.location = "Paris"]}
    [] t = "scheduleTask" ->
         {[Blank EXCEPT !.when = w, !.description = d] :
            w \in Whens, d \in Descriptions}
    [] t = "cancelScheduledTask" -> {[Blank EXCEPT !.taskId = i] : i \in TaskIds}
    [] t \in {"createKlaviyoProfile", "getKlaviyoProfile", "updateKlaviyoProfile"}
         -> {[Blank EXCEPT !.email = e] : e \in Emails}
    [] t = "createKlaviyoList" -> {[Blank EXCEPT !.name = "VIP"]}
    [] t \in {"addProfileToList", "removeProfileFromList"} ->
         {[Blank EXCEPT !.email = e, !.listId = l] : e \in Emails, l \in ListIds}
    [] t = "sendKlaviyoCampaign" ->
         {[Blank EXCEPT !.campaignId = c] : c \in CampaignIds}
    [] t = "getKlaviyoCampaigns" -> {[Blank EXCEPT !.limit = n] : n \in {Undefined, "10"}}
    [] t = "getKlaviyoMetrics" ->
         {[Blank EXCEPT !.metricId = m] : m \in {Undefined, "M1"}}
    [] OTHER -> {Blank}

\* the same with one required field left out or of the wrong primitive type
Malformed(t) ==
  {[a EXCEPT ![f] = v] :
     a \in WellFormed(t), f \in Required(t), v \in {Undefined, NotAString}}

RawArguments(t) == WellFormed(t) \cup Malformed(t)

\* mutant: nothing is checked
ValidateNothing(t, args) == TRUE

Validate(t, args) ==
  /\ \A f \in Required(t) : args[f] \notin {Undefined, NotAString}
  /\ t = "scheduleTask" => args.when.type \in ScheduleTypes

(***************************************************************************)
(* One run of the executor of tool t.                                      *)
(***************************************************************************)
Execute(t, args, key, r1, r2, so, store) ==
  CASE t = "getLocalTime" -> getLocalTime(args, store)
    [] t = "scheduleTask" -> scheduleTask(args, so, store)
    [] t = "getScheduledTasks" -> getScheduledTasks(args, so, store)
    [] t = "cancelScheduledTask" -> cancelScheduledTask(args, so, store)
    [] t = "getKlaviyoProfile" -> getKlaviyoProfile(args, key, r1, store)
    [] t = "getKlaviyoLists" -> getKlaviyoLists(args, key, r1, store)
    [] t = "getKlaviyoCampaigns" -> getKlaviyoCampaigns(args, key, r1, store)
    [] t = "getKlaviyoMetrics" -> getKlaviyoMetrics(args, key, r1, store)
    [] OTHER -> NotRun(store)

Confirmed(t, args, key, r1, r2, store) ==
  CASE t = "getWeatherInformation" -> executions_getWeatherInformation(args, store)
    [] t = "createKlaviyoProfile" -> executions_createKlaviyoProfile(args, key, r1, store)
    [] t = "updateKlaviyoProfile" ->
         executions_updateKlaviyoProfile(args, key, r1, r2, store)
    [] t = "createKlaviyoList" -> executions_createKlaviyoList(args, key, r1, store)
    [] t = "addProfileToList" -> executions_addProfileToList(args, key, r1, r2, store)
    [] t = "removeProfileFromList" ->
         executions_removeProfileFromList(args, key, r1, r2, store)
    [] t = "sendKlaviyoCampaign" -> executions_sendKlaviyoCampaign(args, key, r1, store)
    [] OTHER -> NotRun(store)

(***************************************************************************)
(* State.                                                                  *)
(***************************************************************************)
VARIABLES
  calls,           \* call id -> the ToolCall with that id
  schedules,       \* the Schedule Store, in creation order
  nextScheduleId,  \* how many descriptors the session has registered
  apiKey           \* process.env.KLAVIYO_API_KEY ("" when it is not set)

vars == <<calls, schedules, nextScheduleId, apiKey>>

CallIds == 1..MaxCalls

NoOut == [result |-> NoResult, threw |-> FALSE, unhandled |-> FALSE,
          requests |-> <<>>, responses |-> <<>>, session |-> <<>>]

NoCall == [state |-> "NONE", toolName |-> "", args |-> Blank, decision |-> "none",
           ran |-> FALSE, added |-> 0, out |-> NoOut]

Terminal == {"COMPLETED", "FAILED", "DENIED"}

\* a call is being processed, or its result is not yet folded into the history
Busy == \E c \in CallIds : calls[c].state \notin {"NONE", "AWAITING_CONFIRMATION"}

Store == [schedules |-> schedules, nextId |-> nextScheduleId]

Init ==
  /\ calls = [c \in CallIds |-> NoCall]
  /\ schedules = <<>>
  /\ nextScheduleId = 0
  /\ apiKey \in {"", "pk_0123"}

(***************************************************************************)
(* The Confirmation Gate (spec 4.1, 4.2).                                  *)
(***************************************************************************)
\* mutant: every tool asks for confirmation
ClassifyAllConfirm(t) == "REQUIRES_CONFIRMATION"

\* mutant: the class changes once a task is scheduled
ClassifyUntilScheduled(t) ==
  IF HasExecute(t) /\ Len(schedules) = 0 THEN "AUTO" ELSE "REQUIRES_CONFIRMATION"

Classify(t) == IF HasExecute(t) THEN "AUTO" ELSE "REQUIRES_CONFIRMATION"

FreeId == CHOOSE c \in CallIds : calls[c].state = "NONE" /\
                                 \A d \in CallIds : calls[d].state = "NONE" => c <= d

\* the model emits a tool call; calls are taken one at a time
ReceiveToolCall(t, args) ==
  /\ ~Busy
  /\ \E c \in CallIds : calls[c].state = "NONE"
  /\ calls' = [calls EXCEPT ![FreeId] =
                 [NoCall EXCEPT !.state = "PENDING_MODEL", !.toolName = t,
                                !.args = args]]
  /\ UNCHANGED <<schedules, nextScheduleId, apiKey>>

GateError(name) == Str(name, <<>>)

\* validate, then classify: run at once or park for the human's decision
Dispatch(c) ==
  /\ calls[c].state = "PENDING_MODEL"
  /\ calls' = [calls EXCEPT ![c] =
       IF ~Validate(@.toolName, @.args)
       THEN [@ EXCEPT !.state = "FAILED",
                      !.out.result = GateError("SchemaValidationError")]
       ELSE IF Classify(@.toolName) = "AUTO"
       THEN [@ EXCEPT !.state = "AUTO_RUNNING"]
       ELSE [@ EXCEPT !.state = "AWAITING_CONFIRMATION"]]
  /\ UNCHANGED <<schedules, nextScheduleId, apiKey>>

\* what the gate records of a run of an executor
Settle(call, o) ==
  [call EXCEPT
     !.state = IF o.threw THEN "FAILED" ELSE "COMPLETED",
     !.ran = TRUE,
     !.added = o.store.nextId - nextScheduleId,
     !.out = [result |-> o.result, threw |-> o.threw, unhandled |-> o.unhandled,
              requests |-> o.requests, responses |-> o.responses,
              session |-> o.session]]

RunAuto(c) ==
  /\ calls[c].state = "AUTO_RUNNING"
  /\ \E r1 \in Responses, so \in SessionOutcomes :
       LET o == Execute(calls[c].toolName, calls[c].args, apiKey, r1, r1, so, Store)
       IN /\ calls' = [calls EXCEPT ![c] = Settle(@, o)]
          /\ schedules' = o.store.schedules
          /\ nextScheduleId' = o.store.nextId
  /\ UNCHANGED apiKey

\* mutant: a denied call is passed on to its executor all the same
DecideIgnoringDenial(call, decision) ==
  [call EXCEPT !.state = "APPROVED", !.decision = decision]

Decide(call, decision) ==
  IF decision = "approve"
  THEN [call EXCEPT !.state = "APPROVED", !.decision = "approve"]
  ELSE [call EXCEPT !.state = "DENIED", !.decision = "deny",
                    !.out.result = Str("The user denied the tool call", <<>>)]

Approve(c) ==
  /\ ~Busy
  /\ calls[c].state = "AWAITING_CONFIRMATION"
  /\ calls' = [calls EXCEPT ![c] = Decide(@, "approve")]
  /\ UNCHANGED <<schedules, nextScheduleId, apiKey>>

Deny(c) ==
  /\ ~Busy
  /\ calls[c].state = "AWAITING_CONFIRMATION"
  /\ calls' = [calls EXCEPT ![c] = Decide(@, "deny")]
  /\ UNCHANGED <<schedules, nextScheduleId, apiKey>>

\* the approved call's executor is looked up by name in `executions`
RunConfirmed(c) ==
  /\ calls[c].state = "APPROVED"
  /\ IF calls[c].toolName \notin executions
     THEN /\ calls' = [calls EXCEPT ![c] =
                 [@ EXCEPT !.state = "FAILED",
                           !.out.result = GateError("ExecutorNotFoundError")]]
          /\ UNCHANGED <<schedules, nextScheduleId>>
     ELSE \E r1 \in Responses, r2 \in Responses :
            LET o == Confirmed(calls[c].toolName, calls[c].args, apiKey, r1, r2, Store)
            IN /\ calls' = [calls EXCEPT ![c] = Settle(@, o)]
               /\ schedules' = o.store.schedules
               /\ nextScheduleId' = o.store.nextId
  /\ UNCHANGED apiKey

\* the result is folded into the conversation and the call is dropped
Retire(c) ==
  /\ calls[c].state \in Terminal
  /\ calls' = [calls EXCEPT ![c] = NoCall]
  /\ UNCHANGED <<schedules, nextScheduleId, apiKey>>

Next ==
  \/ \E t \in tools : \E args \in RawArguments(t) : ReceiveToolCall(t, args)
  \/ \E c \in CallIds : Dispatch(c)
  \/ \E c \in CallIds : RunAuto(c)
  \/ \E c \in CallIds : Approve(c)
  \/ \E c \in CallIds : Deny(c)
  \/ \E c \in CallIds : RunConfirmed(c)
  \/ \E c \in CallIds : Retire(c)

Spec == Init /\ [][Next]_vars

\* The gate dispatches every call it received, and the calls an executor
\* awaits (fetch, the session's operations) settle, so a running
\* auto-executable call ends; nothing obliges the human to decide.
FairSpec ==
  /\ Spec
  /\ \A c \in CallIds : WF_vars(Dispatch(c)) /\ WF_vars(RunAuto(c))

TypeOK ==
  /\ \A c \in CallIds :
       calls[c].state \in {"NONE", "PENDING_MODEL", "AUTO_RUNNING",
                           "AWAITING_CONFIRMATION", "APPROVED"} \cup Terminal
  /\ nextScheduleId \in 0..MaxSchedules
  /\ Len(schedules) <= nextScheduleId

(***************************************************************************)
(* Properties.                                                             *)
(***************************************************************************)
Requests(c) == calls[c].out.requests

Mutating(q) == q.method \in {"POST", "PATCH", "DELETE"}

\* C1: the executor of a confirmation-required call is never invoked unless
\* an approve decision was received for that call id, and never when the
\* decision for that call id is deny.
C1_ExecutorOnlyAfterApproval ==
  \A c \in CallIds :
    RequiresConfirmation(calls[c].toolName) =>
      /\ (calls[c].ran \/ Len(Requests(c)) > 0) => calls[c].decision = "approve"
      /\ calls[c].decision = "deny" => ~calls[c].ran /\ Requests(c) = <<>>

\* an approved call whose executor ran while another call is still parked
C1_Witness ==
  \E c, d \in CallIds :
    /\ RequiresConfirmation(calls[c].toolName)
    /\ calls[c].ran /\ calls[c].decision = "approve" /\ Len(Requests(c)) > 0
    /\ calls[d].state = "AWAITING_CONFIRMATION"

\* C2: every request that creates, mutates or sends (POST, PATCH, DELETE) is
\* issued by a confirmation-required tool; the auto-executable integration
\* tools are exactly the four readers and they issue GET requests only.
C2_MutationsRequireConfirmation ==
  /\ {t \in IntegrationTools : HasExecute(t)} =
       {"getKlaviyoProfile", "getKlaviyoLists", "getKlaviyoCampaigns",
        "getKlaviyoMetrics"}
  /\ \A c \in CallIds : \A i \in DOMAIN Requests(c) :
       /\ Mutating(Requests(c)[i]) => RequiresConfirmation(calls[c].toolName)
       /\ HasExecute(calls[c].toolName) => Requests(c)[i].method = "GET"

\* an auto-executed reader that has sent its request
C2_Witness ==
  \E c \in CallIds :
    /\ calls[c].toolName = "getKlaviyoCampaigns"
    /\ calls[c].state = "COMPLETED"
    /\ Len(Requests(c)) = 1 /\ Requests(c)[1].method = "GET"

\* C3: `executions` has an entry for exactly the tools of `tools` that have
\* no execute function, so no approved call fails with ExecutorNotFoundError.
C3_ExecutionsMatchRegistry ==
  /\ \A t \in tools : ~HasExecute(t) => t \in executions
  /\ \A k \in executions : k \in tools /\ ~HasExecute(k)
  /\ \A c \in CallIds :
       calls[c].out.result # GateError("ExecutorNotFoundError")

\* an approved send-campaign call found its executor and completed
C3_Witness ==
  \E c \in CallIds :
    /\ calls[c].toolName = "sendKlaviyoCampaign"
    /\ calls[c].decision = "approve"
    /\ calls[c].state = "COMPLETED" /\ calls[c].ran

Session(c) == calls[c].out.session

Result(c) == calls[c].out.result

RanTool(c, t) == calls[c].toolName = t /\ calls[c].ran

\* the session's schedule operation was called and failed
ScheduleFailed(c) ==
  \E i \in DOMAIN Session(c) :
    Session(c)[i].op = "schedule" /\ Session(c)[i].ended # "ok"

ReportsScheduled(c) == Result(c) = ScheduledText(calls[c].args.when,
                                                 ScheduleInput(calls[c].args.when))

\* C4 (as claimed): whenever the session's schedule operation fails, also
\* after the call returned a pending promise, scheduleTask settles with a
\* string describing the error, reports no success and throws nothing past
\* the tool-call boundary.
C4_SchedulingErrorsReturned ==
  \A c \in CallIds :
    RanTool(c, "scheduleTask") /\ ScheduleFailed(c) =>
      /\ IsErrorResult(Result(c))
      /\ ~ReportsScheduled(c)
      /\ ~calls[c].out.threw /\ ~calls[c].out.unhandled

\* the id the session gave the descriptor this call registered
AssignedId == IdOf(nextScheduleId)

Registered(c) == RanTool(c, "scheduleTask") /\ calls[c].added = 1

\* C5 (as claimed): a successful scheduleTask call returns the identifier
\* the session assigned to the descriptor it registered.
C5_ReturnsAssignedId ==
  \A c \in CallIds :
    Registered(c) => AssignedId \in RangeOf(Result(c).parts) \cup {Result(c).msg}

\* C5 (amended): a successful scheduleTask call registers a descriptor under
\* a session-assigned id and returns the text naming the type and the
\* trigger, which does not contain that id; the id is what getScheduledTasks
\* lists for the descriptor.
C5_ReturnsTypeAndTrigger ==
  \A c \in CallIds :
    /\ Registered(c) =>
         /\ Len(schedules) > 0
         /\ schedules[Len(schedules)].id = AssignedId
         /\ schedules[Len(schedules)].trigger = ScheduleInput(calls[c].args.when)
         /\ Result(c).type = "string"
         /\ Result(c).parts =
              <<calls[c].args.when.type, schedules[Len(schedules)].trigger>>
         /\ AssignedId \notin RangeOf(Result(c).parts)
    /\ RanTool(c, "getScheduledTasks") /\ Result(c).type = "object" =>
         Result(c).tasks = schedules

\* a scheduleTask call has registered a descriptor and reported it
C5_Witness ==
  \E c \in CallIds :
    /\ Registered(c) /\ calls[c].state = "COMPLETED"
    /\ calls[c].args.when.type = "delayed"
    /\ Len(schedules) = 1

\* C6: a scheduleTask call of type "no-schedule" returns the informational
\* text, throws nothing, calls no session operation and registers nothing.
C6_NoScheduleIsInformational ==
  \A c \in CallIds :
    RanTool(c, "scheduleTask") /\ calls[c].args.when.type = "no-schedule" =>
      /\ Result(c) = Str("Not a valid schedule input", <<>>)
      /\ ~IsErrorResult(Result(c))
      /\ calls[c].state = "COMPLETED"
      /\ ~calls[c].out.threw /\ ~calls[c].out.unhandled
      /\ Session(c) = <<>>
      /\ calls[c].added = 0

\* a "no-schedule" call has run while the store holds a descriptor
C6_Witness ==
  \E c \in CallIds :
    /\ RanTool(c, "scheduleTask") /\ calls[c].args.when.type = "no-schedule"
    /\ Len(schedules) = 1

\* C7 (as claimed): each invocation of scheduleTask's execute adds exactly
\* one descriptor to the Schedule Store.
C7_ExactlyOneDescriptor ==
  \A c \in CallIds : RanTool(c, "scheduleTask") => calls[c].added = 1

\* C7 (amended): each invocation of scheduleTask's execute calls the
\* session's schedule operation at most once and adds at most one
\* descriptor: exactly one when that operation succeeds, none when the type
\* is "no-schedule" or the operation fails.
C7_AtMostOneDescriptor ==
  \A c \in CallIds :
    RanTool(c, "scheduleTask") =>
      /\ Len(Session(c)) <= 1
      /\ calls[c].added \in {0, 1}
      /\ calls[c].added = 1 <=>
           (Len(Session(c)) = 1 /\ Session(c)[1].ended = "ok")
      /\ calls[c].args.when.type = "no-schedule" => calls[c].added = 0

\* a cron request has added its one descriptor
C7_Witness ==
  \E c \in CallIds :
    /\ RanTool(c, "scheduleTask") /\ calls[c].args.when.type = "cron"
    /\ calls[c].added = 1

C9_NoExceptionEscapes ==
  \A c \in CallIds :
    calls[c].ran =>
      /\ ~calls[c].out.threw
      /\ ~calls[c].out.unhandled
      /\ Result(c).type \in {"string", "object"}

ZeroMatches(c) ==
  /\ Len(calls[c].out.responses) >= 1
  /\ calls[c].out.responses[1].ok
  /\ calls[c].out.responses[1].data = <<>>

\* C10: when the lookup of a two-step executor returns no match, the
\* executor returns the not-found message naming the email and sends no
\* mutating request (the lookup is the only request).
C10_NotFoundSendsNothing ==
  \A c \in CallIds :
    calls[c].toolName \in TwoStepTools /\ calls[c].ran /\ ZeroMatches(c) =>
      /\ IsErrorResult(Result(c))
      /\ Result(c).cause = "Error: Profile not found for email"
      /\ Result(c).parts = <<calls[c].args.email>>
      /\ Len(Requests(c)) = 1
      /\ \A i \in DOMAIN Requests(c) : ~Mutating(Requests(c)[i])

\* a removal was approved and its lookup found nobody
C10_Witness ==
  \E c \in CallIds :
    /\ RanTool(c, "removeProfileFromList") /\ ZeroMatches(c)
    /\ calls[c].decision = "approve"

\* the arguments miss a required field or carry a wrong primitive type
Invalid(c) ==
  \E f \in Required(calls[c].toolName) : calls[c].args[f] \in {Undefined, NotAString}

\* C11: validation runs before any executor, for both classes: a call whose
\* arguments miss a required field or carry a wrong primitive type never
\* reaches its executor (it is not run, sends no request, calls no session
\* operation, and is neither parked nor approved).
C11_InvalidNeverReachesExecutor ==
  \A c \in CallIds :
    calls[c].state # "NONE" /\ Invalid(c) =>
      /\ ~calls[c].ran
      /\ Requests(c) = <<>> /\ Session(c) = <<>>
      /\ calls[c].state \in {"PENDING_MODEL", "FAILED"}
      /\ calls[c].state = "FAILED" =>
           Result(c) = GateError("SchemaValidationError")

\* an addProfileToList call without its listId was rejected while an
\* earlier, valid call is parked
C11_Witness ==
  \E c, d \in CallIds :
    /\ calls[c].toolName = "addProfileToList" /\ Invalid(c)
    /\ calls[c].state = "FAILED" /\ ~calls[c].ran
    /\ calls[d].state = "AWAITING_CONFIRMATION"

\* C12 (as claimed): with the API key absent, every integration executor
\* fails the call: it returns an error result and does not throw.
C12_AbsentKeyFailsTheCall ==
  \A c \in CallIds :
    calls[c].toolName \in IntegrationTools /\ calls[c].ran /\ apiKey = "" =>
      /\ IsErrorResult(Result(c))
      /\ ~calls[c].out.threw /\ ~calls[c].out.unhandled

\* getScheduledTasks ran, the session listed without error, and the store
\* holds nothing (the store is as the call left it until the call is retired)
ListedEmpty(c) ==
  /\ RanTool(c, "getScheduledTasks")
  /\ Session(c)[1].ended = "ok"
  /\ Len(schedules) = 0

\* C13 (as claimed): getScheduledTasks on an empty Schedule Store returns a
\* sequence of length 0, not an error and not any other kind of value.
C13_EmptyStoreListsEmptySequence ==
  \A c \in CallIds :
    ListedEmpty(c) => Result(c) = TaskList(<<>>)

\* C13 (amended): getScheduledTasks on an empty Schedule Store returns the
\* text "No scheduled tasks found.", which is not an error result and not a
\* sequence; on a non-empty store it returns the descriptors themselves.
C13_EmptyStoreListsAsText ==
  \A c \in CallIds :
    RanTool(c, "getScheduledTasks") /\ Session(c)[1].ended = "ok" =>
      /\ ~IsErrorResult(Result(c)) /\ ~calls[c].out.threw
      /\ IF Len(schedules) = 0
         THEN Result(c) = Str("No scheduled tasks found.", <<>>)
         ELSE Result(c) = TaskList(schedules)

\* the store was listed after its only descriptor had been cancelled
C13_Witness ==
  \E c \in CallIds :
    ListedEmpty(c) /\ nextScheduleId = 1 /\ Len(schedules) = 0

\* the class a call was treated as, read off the path it took: run without
\* a decision, or parked for one
TreatedAs(c) ==
  IF calls[c].state = "AUTO_RUNNING" \/ (calls[c].ran /\ calls[c].decision = "none")
  THEN "AUTO"
  ELSE IF \/ calls[c].state \in {"AWAITING_CONFIRMATION", "APPROVED", "DENIED"}
          \/ calls[c].decision # "none"
  THEN "REQUIRES_CONFIRMATION"
  ELSE "unclassified"

\* C14: the class of a tool is a function only of whether it was defined
\* with an execute function and is the same on every call: whatever calls,
\* approvals, denials and scheduling operations came before, a call is
\* treated as AUTO exactly when its tool has execute, and two calls of the
\* same tool are treated alike.
C14_ClassIsExecutePresence ==
  /\ \A c \in CallIds :
       TreatedAs(c) # "unclassified" =>
         TreatedAs(c) = IF calls[c].toolName \in WithExecute
                        THEN "AUTO" ELSE "REQUIRES_CONFIRMATION"
  /\ \A c, d \in CallIds :
       /\ calls[c].toolName = calls[d].toolName
       /\ TreatedAs(c) # "unclassified" /\ TreatedAs(d) # "unclassified"
       => TreatedAs(c) = TreatedAs(d)

\* after a task was scheduled, a second scheduleTask call still runs
\* without confirmation
C14_Witness ==
  \E c \in CallIds :
    /\ calls[c].toolName = "scheduleTask" /\ TreatedAs(c) = "AUTO"
    /\ Len(schedules) = 1 /\ calls[c].added = 0 /\ calls[c].ran

\* C15: a call to an auto-executable tool never passes through
\* AWAITING_CONFIRMATION (nor an approval or a denial), and once received it
\* reaches COMPLETED or FAILED, on every run in which the gate keeps
\* dispatching and the executor's awaited calls settle.
C15_AutoRunsToTheEnd ==
  /\ [](\A c \in CallIds :
          calls[c].toolName \in WithExecute =>
            /\ calls[c].state \notin {"AWAITING_CONFIRMATION", "APPROVED", "DENIED"}
            /\ calls[c].decision = "none")
  /\ \A c \in CallIds :
       (calls[c].state = "PENDING_MODEL" /\ calls[c].toolName \in WithExecute)
         ~> (calls[c].state \in {"COMPLETED", "FAILED"})

\* getLocalTime completed while a confirmation-required call stays parked
C15_Witness ==
  \E c, d \in CallIds :
    /\ calls[c].toolName = "getLocalTime" /\ calls[c].state = "COMPLETED"
    /\ calls[c].ran /\ calls[c].decision = "none"
    /\ calls[d].state = "AWAITING_CONFIRMATION"

(***************************************************************************)
(* The scheduling tools invoked directly, without the gate in front: their *)
(* execute functions applied to every argument record of the input sets,   *)
(* a `when` whose type is outside the enumeration included.                *)
(***************************************************************************)
SchedulingTools == {"scheduleTask", "getScheduledTasks", "cancelScheduledTask"}

Invoke(t, args) ==
  /\ ~Busy
  /\ calls' = [calls EXCEPT ![FreeId] =
                 [NoCall EXCEPT !.state = "AUTO_RUNNING", !.toolName = t,
                                !.args = args]]
  /\ UNCHANGED <<schedules, nextScheduleId, apiKey>>

ExecuteNext ==
  \/ \E t \in SchedulingTools : \E args \in WellFormed(t) : Invoke(t, args)
  \/ \E c \in CallIds : RunAuto(c)
  \/ \E c \in CallIds : Retire(c)

ExecuteSpec == Init /\ [][ExecuteNext]_vars

C16_OutsideTypeRefused ==
  \E c \in CallIds :
    /\ RanTool(c, "scheduleTask") /\ calls[c].args.when.type = "weekly"
    /\ calls[c].out.threw /\ Session(c) = <<>>

Responded(c) == calls[c].out.responses

\* the last response the executor received was a non-success response
RefusedByApi(c) ==
  /\ calls[c].ran /\ calls[c].toolName \in IntegrationTools
  /\ Responded(c) # <<>>
  /\ LET r == Responded(c)[Len(Responded(c))] IN ~r.thrown /\ ~r.ok

\* C17 (as claimed): an integration executor that receives a non-success
\* response returns an error result carrying the response's status and its
\* body, and not its success message or payload.
C17_ErrorCarriesStatusAndBody ==
  \A c \in CallIds :
    RefusedByApi(c) =>
      LET r == Responded(c)[Len(Responded(c))] IN
      /\ IsErrorResult(Result(c))
      /\ r.status \in RangeOf(Result(c).parts)
      /\ r.body \in RangeOf(Result(c).parts)

\* what the mutating request of a two-step executor names as its profile
Target(c, q) ==
  IF calls[c].toolName = "addProfileToList" THEN q.body[1] ELSE q.path[Len(q.path)]

\* C18: in a two-step executor the mutating request is sent only after the
\* lookup, and only when the lookup answered with success and at least one
\* match; it names the id of the first match.  A lookup that failed or was
\* answered with non-success is the only request of the call.
C18_MutationFollowsLookup ==
  \A c \in CallIds :
    calls[c].toolName \in TwoStepTools /\ calls[c].ran =>
      LET Q == Requests(c)
          R == Responded(c)
      IN
      /\ Len(Q) >= 1 /\ ~Mutating(Q[1]) /\ Q[1].path = <<calls[c].args.email>>
      /\ \A i \in DOMAIN Q :
           Mutating(Q[i]) =>
             /\ i = 2
             /\ ~R[1].thrown /\ R[1].ok /\ Len(R[1].data) >= 1
             /\ Target(c, Q[i]) = R[1].data[1]
      /\ (R[1].thrown \/ ~R[1].ok) => Len(Q) = 1

\* the lookup matched two profiles and the mutation went to the first
C18_Witness ==
  \E c \in CallIds :
    /\ calls[c].toolName = "removeProfileFromList" /\ calls[c].ran
    /\ Len(Requests(c)) = 2 /\ Mutating(Requests(c)[2])
    /\ Responded(c)[1].data = <<"P2", "P1">>
    /\ Target(c, Requests(c)[2]) = "P2"

MutatingRequests(c) == {i \in DOMAIN Requests(c) : Mutating(Requests(c)[i])}

\* C19: one invocation of a confirmed executor sends at most one mutating
\* request and repeats none, whatever the responses: createKlaviyoProfile,
\* createKlaviyoList and sendKlaviyoCampaign send exactly one request in
\* all, a two-step executor one lookup followed by at most one mutating
\* request, getWeatherInformation none.
C19_AtMostOneMutation ==
  \A c \in CallIds :
    calls[c].toolName \in executions /\ calls[c].ran =>
      LET Q == Requests(c) IN
      /\ Cardinality(MutatingRequests(c)) <= 1
      /\ Len(Responded(c)) = Len(Q)
      /\ calls[c].toolName \in
           {"createKlaviyoProfile", "createKlaviyoList", "sendKlaviyoCampaign"}
           => Len(Q) = 1 /\ Mutating(Q[1])
      /\ calls[c].toolName \in TwoStepTools =>
           /\ Len(Q) \in {1, 2}
           /\ ~Mutating(Q[1])
           /\ Len(Q) = 2 => Mutating(Q[2])
      /\ calls[c].toolName = "getWeatherInformation" => Q = <<>>

\* a campaign send was refused by the API and was not sent again
C19_Witness ==
  \E c \in CallIds :
    /\ calls[c].toolName = "sendKlaviyoCampaign" /\ calls[c].ran
    /\ RefusedByApi(c) /\ Len(Requests(c)) = 1
    /\ IsErrorResult(Result(c))

====
